---- MODULE Spec2Model ----
(***************************************************************************)
(* ptt: one-shot control of the DTR/RTS bits of an 8250 Modem Control      *)
(* Register through raw port I/O (src/ptt.c).                              *)
(*                                                                         *)
(* The model follows main(): compiled-in defaults, load_config(),          *)
(* parse_args(), address resolution, ioperm(), inb(), the computation of   *)
(* the new register value, outb(), the read-back and exit().  Values the   *)
(* C code reads without having initialised them (the fields of the local   *)
(* `configuration config` that the file does not set, the local new_value  *)
(* when no case of the switch assigns it, argv[] past argc) are            *)
(* nondeterministic choices.                                               *)
(***************************************************************************)
EXTENDS Integers, Sequences, FiniteSets, TLC

VARIABLES
    fs,            \* configuration files on disk: path -> file
    cmdline,       \* the command line as typed (argv[1..], without argv[0])
    argv,          \* argv[] of the running process (getopt_long permutes it)
    uart,          \* TRUE: a UART latches the MCR; FALSE: no UART at the port
    mcr,           \* content of the Modem Control Register
    mcr0,          \* content of the MCR when the current run started
    devicename,    \* global char * devicename
    linename,      \* global char * linename
    cfgfile,       \* global char * cfgfile
    loaded,        \* paths handed to ini_parse() by this run, in order
    port_number,   \* global int port_number
    ctrl_line,     \* global unsigned char ctrl_line
    quiet,         \* static int quiet
    port_address,  \* main: int port_address
    old_value,     \* main: unsigned char old_value
    new_value,     \* main: unsigned char new_value
    value,         \* main: unsigned char value
    pc,            \* position in main()
    exit_status,   \* status handed to exit() / returned by main
    hw,            \* hardware operations of the current run, in order
    report,        \* lines of the final-state report printed by this run
    runs,          \* number of runs started so far
    history        \* per run that reached exit(0): the selector and desired
                   \* state it used and the MCR content it left

vars == <<fs, cmdline, argv, uart, mcr, mcr0, devicename, linename, cfgfile,
          loaded, port_number, ctrl_line, quiet, port_address, old_value, new_value,
          value, pc, exit_status, hw, report, runs, history>>

(***************************************************************************)
(* Bounds of the model.                                                    *)
(***************************************************************************)
MaxRuns == 2

(***************************************************************************)
(* Program constants.                                                      *)
(***************************************************************************)
ON == 1
OFF == 0
ERROR == -1
MCR_REG_ONLY == 1
WHOLE_UART == 8
DTR_MASK == 1
RTS_MASK == 2
MCR_MASK == 3
CTRL_NONE == 0
CTRL_DTR == 1
CTRL_RTS == 2
CTRL_BOTH == 3
MCR_ADDR_OFFSET == 4
IO_MASK == 65535
DEF_DEVICENAME == "/dev/ttyS0"
DEF_LINENAME == "BOTH"
DEF_CFGFILE == "ptt.conf"
DEF_PORTNUM == 0
UCharRange == 256
SIGSEGV_STATUS == 139

(***************************************************************************)
(* C integer arithmetic.                                                   *)
(***************************************************************************)
RECURSIVE BitAnd(_, _)
BitAnd(a, b) ==
    IF a = 0 \/ b = 0 THEN 0
    ELSE (a % 2) * (b % 2) + 2 * BitAnd(a \div 2, b \div 2)

RECURSIVE BitOr(_, _)
BitOr(a, b) ==
    IF a = 0 THEN b
    ELSE IF b = 0 THEN a
    ELSE (IF (a % 2) + (b % 2) > 0 THEN 1 ELSE 0) + 2 * BitOr(a \div 2, b \div 2)

\* ~x of an int, as the bit pattern of its low 31 bits (the sign bit is
\* dropped: every use is and-ed with a promoted unsigned char).
BitNot(x) == 2147483647 - x

\* conversion of an int to unsigned char
ToUChar(x) == x % UCharRange

\* atoi() on the strings of the model: decimal strings give their value,
\* a string that does not start with a number gives 0.
Atoi(s) ==
    CASE s = "0" -> 0
      [] s = "1" -> 1
      [] s = "2" -> 2
      [] s = "3" -> 3
      [] s = "4" -> 4
      [] s = "5" -> 5
      [] s = "6" -> 6
      [] s = "7" -> 7
      [] s = "8" -> 8
      [] s = "9" -> 9
      [] s = "-1" -> -1
      [] s = "255" -> 255
      [] s = "258" -> 258
      [] OTHER -> 0

(***************************************************************************)
(* Lookup functions.                                                       *)
(***************************************************************************)
getCtrlLine(line) ==
    IF line = "NONE" THEN CTRL_NONE
    ELSE IF line = "DTR" THEN CTRL_DTR
    ELSE IF line = "RTS" THEN CTRL_RTS
    ELSE IF line = "BOTH" THEN CTRL_BOTH
    ELSE ERROR

getCtrlLineName(cline) ==
    CASE cline = CTRL_NONE -> "NONE"
      [] cline = CTRL_DTR -> "DTR"
      [] cline = CTRL_RTS -> "RTS"
      [] cline = CTRL_BOTH -> "BOTH"
      [] OTHER -> "ERROR"

getPortNumber(portname) ==
    IF portname = "/dev/ttyS0" THEN 0
    ELSE IF portname = "/dev/ttyS1" THEN 1
    ELSE IF portname = "/dev/ttyS2" THEN 2
    ELSE IF portname = "/dev/ttyS3" THEN 3
    ELSE IF portname = "/dev/ttyS4" THEN 4
    ELSE IF portname = "/dev/ttyS5" THEN 5
    ELSE IF portname = "/dev/ttyS6" THEN 6
    ELSE IF portname = "/dev/ttyS7" THEN 7
    ELSE -1

\* the table with the entries of ports 2 and 3 exchanged
getPortAddress_Swapped(portnum) ==
    CASE portnum = 0 -> 1016
      [] portnum = 1 -> 760
      [] portnum = 2 -> 744
      [] portnum = 3 -> 1000
      [] portnum = 4 -> 60568
      [] portnum = 5 -> 56512
      [] portnum = 6 -> 56520
      [] portnum = 7 -> 56528
      [] portnum = 8 -> 56536
      [] OTHER -> 1016

\* The switch is on the global port_number, not on the parameter; main
\* passes the global, so both are the same value.
getPortAddress(portnum) ==
    CASE portnum = 0 -> 1016     \* 0x3F8
      [] portnum = 1 -> 760      \* 0x2F8
      [] portnum = 2 -> 1000     \* 0x3E8
      [] portnum = 3 -> 744      \* 0x2E8
      [] portnum = 4 -> 60568    \* 0xec98
      [] portnum = 5 -> 56512    \* 0xdcc0
      [] portnum = 6 -> 56520    \* 0xdcc8
      [] portnum = 7 -> 56528    \* 0xdcd0
      [] portnum = 8 -> 56536    \* 0xdcd8
      [] OTHER -> 1016           \* 0x3F8

(***************************************************************************)
(* The configuration file.  A file is unreadable, or a sequence of         *)
(* <<section, name, value>> entries that the ini parser hands to handler   *)
(* one by one.  A field of the record `configuration config` is a set: {}  *)
(* while nothing has been stored in it (load_config declares the record    *)
(* without initialising it), {v} once handler stored v.                    *)
(***************************************************************************)
NoConfig ==
    [quiet |-> {}, port_number |-> {}, ctrl_line |-> {},
     devicename |-> {}, linename |-> {}]

\* handler(): store one entry in the record; an unknown section/name pair
\* leaves the record alone (handler returns 0).
handler(config, section, name, val) ==
    IF section = "DEBUG" /\ name = "Quiet"
    THEN [config EXCEPT !.quiet = {Atoi(val)}]
    ELSE IF section = "DEVICES" /\ name = "DeviceName"
    THEN [config EXCEPT !.devicename = {val}]
    ELSE IF section = "DEVICES" /\ name = "LineName"
    THEN [config EXCEPT !.linename = {val}]
    ELSE IF section = "DEVICES" /\ name = "ControlLine"
    THEN [config EXCEPT !.ctrl_line = {ToUChar(Atoi(val))}]
    ELSE IF section = "DEVICES" /\ name = "PortNumber"
    THEN [config EXCEPT !.port_number = {Atoi(val)}]
    ELSE config

\* ini_parse(): call handler on every entry of the file, in order.
RECURSIVE ini_parse(_, _)
ini_parse(entries, config) ==
    IF entries = <<>> THEN config
    ELSE ini_parse(Tail(entries),
                   handler(config, Head(entries)[1], Head(entries)[2],
                           Head(entries)[3]))

\* What reading an uninitialised object can give.
SEGV == "<SIGSEGV>"
GARBAGE == "<garbage>"
IndeterminateString == {SEGV, GARBAGE}
IndeterminateInt == {-1, 1}
IndeterminateUChar == {0, 1, 2, 3, 4, 255}
IndeterminateFlag == {0, 1}

\* strcpy(dst, config.<field>): the string stored by handler, or, through
\* an indeterminate pointer, a fault or whatever bytes lie there.
StrcpySource(field) == IF field = {} THEN IndeterminateString ELSE field
IntField(field) == IF field = {} THEN IndeterminateInt ELSE field
UCharField(field) == IF field = {} THEN IndeterminateUChar ELSE field
FlagField(field) == IF field = {} THEN IndeterminateFlag ELSE field

(***************************************************************************)
(* The command line.  getopt_long() consumes the options (with their       *)
(* arguments) and moves the non-options to the end of argv.                *)
(***************************************************************************)
LineOpts == {"-l", "--line"}
PortOpts == {"-p", "--port"}
DeviceOpts == {"-d", "--device"}
FileOpts == {"-f", "--file"}
ArgOpts == LineOpts \cup PortOpts \cup DeviceOpts \cup FileOpts
ExitOpts == {"-h", "--help", "-v", "--version"}
FlagOpts == {"--quiet", "--unquiet", "--verbose", "--brief", "--debug", "--nodebug"}
UnknownOpts == {"-x", "--bogus"}

ScanStart ==
    [devicename |-> devicename, port_number |-> port_number,
     linename |-> linename, cfgfile |-> cfgfile, quiet |-> quiet,
     exited |-> FALSE, opts |-> <<>>, nonopts |-> <<>>]

\* case 'p' without its assignment: the port option is parsed and dropped
SetOption_PortDropped(st, opt, optarg) ==
    IF opt \in DeviceOpts THEN [st EXCEPT !.devicename = optarg]
    ELSE IF opt \in PortOpts THEN st
    ELSE IF opt \in LineOpts THEN [st EXCEPT !.linename = optarg]
    ELSE [st EXCEPT !.cfgfile = optarg]

\* one option with its argument (cases 'd', 'p', 'l', 'f' of the switch)
SetOption(st, opt, optarg) ==
    IF opt \in DeviceOpts THEN [st EXCEPT !.devicename = optarg]
    ELSE IF opt \in PortOpts THEN [st EXCEPT !.port_number = Atoi(optarg)]
    ELSE IF opt \in LineOpts THEN [st EXCEPT !.linename = optarg]
    ELSE [st EXCEPT !.cfgfile = optarg]

\* one option without argument (the flag table, and case '?')
SetFlag(st, opt) ==
    IF opt = "--quiet" THEN [st EXCEPT !.quiet = 1]
    ELSE IF opt = "--unquiet" THEN [st EXCEPT !.quiet = 0]
    ELSE st

RECURSIVE GetoptScan(_, _)
GetoptScan(toks, st) ==
    IF toks = <<>> THEN st
    ELSE LET t == Head(toks)
             r == Tail(toks)
         IN  IF t \in ExitOpts
             THEN [st EXCEPT !.exited = TRUE]
             ELSE IF t \in ArgOpts
             THEN IF r = <<>>
                  THEN GetoptScan(r, [st EXCEPT !.opts = Append(@, t)])
                  ELSE GetoptScan(Tail(r),
                           [SetOption(st, t, Head(r))
                               EXCEPT !.opts = @ \o <<t, Head(r)>>])
             ELSE IF t \in FlagOpts \cup UnknownOpts
             THEN GetoptScan(r, [SetFlag(st, t) EXCEPT !.opts = Append(@, t)])
             ELSE GetoptScan(r, [st EXCEPT !.nonopts = Append(@, t)])

(***************************************************************************)
(* The hardware: one register behind the port.  Without a UART a read      *)
(* gives 0xFF and a write is lost.                                         *)
(***************************************************************************)
InB == IF uart THEN mcr ELSE UCharRange - 1

OutB(v) == IF uart THEN v ELSE mcr

HwOp(op, addr, num, val) == [op |-> op, addr |-> addr, num |-> num, val |-> val]

Unreadable == [readable |-> FALSE, entries |-> <<>>]

FileAt(path) == IF path \in DOMAIN fs THEN fs[path] ELSE Unreadable

(***************************************************************************)
(* The register computation of main (the switch on ctrl_line and the       *)
(* masking that follows).  before is the content of the local new_value    *)
(* when the switch is entered: nothing has assigned it.                    *)
(***************************************************************************)
\* the line set or cleared in a fresh byte, the old value forgotten
SetLine_OldDropped(mask, val, old) ==
    IF val = ON THEN mask ELSE 0

SetLine(mask, val, old) ==
    IF val = ON THEN ToUChar(BitOr(mask, old))
    ELSE ToUChar(BitAnd(BitNot(mask), old))

SwitchNewValue(cl, val, old, before) ==
    CASE cl = CTRL_NONE -> before
      [] cl = CTRL_DTR -> SetLine(DTR_MASK, val, old)
      [] cl = CTRL_RTS -> SetLine(RTS_MASK, val, old)
      [] cl = CTRL_BOTH ->
            LET first == SetLine(DTR_MASK, val, old)
                second == SetLine(RTS_MASK, val, old)
            IN  second
      [] OTHER -> before

\* what new_value may hold when the switch is entered; where a case of
\* the switch assigns it, that content is never read
Unassigned(cl) ==
    IF cl \in {CTRL_DTR, CTRL_RTS, CTRL_BOTH} THEN {0}
    ELSE IndeterminateUChar

\* the switch without the masking that follows it
computeNewValue_Unmasked(cl, val, old, before) ==
    SwitchNewValue(cl, val, old, before)

computeNewValue(cl, val, old, before) ==
    BitAnd(MCR_MASK, SwitchNewValue(cl, val, old, before))

\* `new_value & MASK == MASK` parses as new_value & (MASK == MASK)
LineNow(readback, mask) ==
    IF BitAnd(readback, IF mask = mask THEN 1 ELSE 0) # 0 THEN "ON" ELSE "OFF"

FinalReport(cl, readback) ==
    CASE cl = CTRL_DTR -> << <<"DTR", LineNow(readback, DTR_MASK)>> >>
      [] cl = CTRL_RTS -> << <<"RTS", LineNow(readback, RTS_MASK)>> >>
      [] cl = CTRL_BOTH -> << <<"DTR", LineNow(readback, DTR_MASK)>>,
                              <<"RTS", LineNow(readback, RTS_MASK)>> >>
      [] OTHER -> <<>>

(***************************************************************************)
(* The steps of main.                                                      *)
(***************************************************************************)
env == <<fs, cmdline, uart>>
locals == <<port_address, old_value, new_value, value>>

Crash ==
    /\ pc' = "crashed"
    /\ exit_status' = SIGSEGV_STATUS

\* load_config with the guard on ControlLine as it was meant: a field
\* that holds ERROR, as an unsigned char, leaves the selector of LineName
LoadConfig_ErrorHonoured ==
    /\ pc = "load_config"
    /\ loaded' = Append(loaded, cfgfile)
    /\ LET f == FileAt(cfgfile) IN
       IF ~f.readable
       THEN /\ pc' = "parse_args"
            /\ UNCHANGED <<devicename, linename, port_number, ctrl_line,
                           quiet, exit_status>>
       ELSE LET config == ini_parse(f.entries, NoConfig) IN
            \E q \in FlagField(config.quiet),
               dn \in StrcpySource(config.devicename),
               ln \in StrcpySource(config.linename),
               pn \in IntField(config.port_number),
               cl \in UCharField(config.ctrl_line) :
                IF dn = SEGV \/ ln = SEGV
                THEN /\ Crash
                     /\ UNCHANGED <<devicename, linename, port_number,
                                    ctrl_line, quiet>>
                ELSE /\ quiet' = q
                     /\ devicename' = dn
                     /\ linename' = ln
                     /\ port_number' = IF pn # ERROR THEN pn
                                       ELSE getPortNumber(dn)
                     /\ ctrl_line' = IF cl # ToUChar(ERROR) THEN cl
                                     ELSE ToUChar(getCtrlLine(ln))
                     /\ pc' = "parse_args"
                     /\ UNCHANGED exit_status
    /\ UNCHANGED <<env, argv, mcr, mcr0, cfgfile, locals, hw, report, runs,
                   history>>

\* load_config(cfgfile); main ignores what it returns.
LoadConfig ==
    /\ pc = "load_config"
    /\ loaded' = Append(loaded, cfgfile)
    /\ LET f == FileAt(cfgfile) IN
       IF ~f.readable
       THEN /\ pc' = "parse_args"
            /\ UNCHANGED <<devicename, linename, port_number, ctrl_line,
                           quiet, exit_status>>
       ELSE LET config == ini_parse(f.entries, NoConfig) IN
            \E q \in FlagField(config.quiet),
               dn \in StrcpySource(config.devicename),
               ln \in StrcpySource(config.linename),
               pn \in IntField(config.port_number),
               cl \in UCharField(config.ctrl_line) :
                IF dn = SEGV \/ ln = SEGV
                THEN /\ Crash
                     /\ UNCHANGED <<devicename, linename, port_number,
                                    ctrl_line, quiet>>
                ELSE /\ quiet' = q
                     /\ devicename' = dn
                     /\ linename' = ln
                     /\ port_number' = IF pn # ERROR THEN pn
                                       ELSE getPortNumber(dn)
                     /\ ctrl_line' = IF cl # ERROR THEN cl
                                     ELSE ToUChar(getCtrlLine(ln))
                     /\ pc' = "parse_args"
                     /\ UNCHANGED exit_status
    /\ UNCHANGED <<env, argv, mcr, mcr0, cfgfile, locals, hw, report, runs,
                   history>>

\* parse_args(argc, argv)
ParseArgs ==
    /\ pc = "parse_args"
    /\ LET st == GetoptScan(Tail(argv), ScanStart) IN
       /\ devicename' = st.devicename
       /\ port_number' = st.port_number
       /\ linename' = st.linename
       /\ cfgfile' = st.cfgfile
       /\ quiet' = st.quiet
       /\ argv' = <<Head(argv)>> \o st.opts \o st.nonopts
       /\ IF st.exited
          THEN pc' = "exited" /\ exit_status' = 1
          ELSE pc' = "resolve" /\ UNCHANGED exit_status
    /\ UNCHANGED <<env, loaded, mcr, mcr0, ctrl_line, locals, hw, report, runs,
                   history>>

\* the address computation with the MCR offset forgotten
ResolveAddress_NoOffset ==
    /\ pc = "resolve"
    /\ port_address' = BitAnd(getPortAddress(port_number), IO_MASK)
    /\ pc' = "ioperm"
    /\ UNCHANGED <<env, loaded, argv, mcr, mcr0, devicename, linename, cfgfile,
                   port_number, ctrl_line, quiet, old_value, new_value, value,
                   exit_status, hw, report, runs, history>>

\* port_address = getPortAddress(port_number), plus the MCR offset, masked
ResolveAddress ==
    /\ pc = "resolve"
    /\ port_address' =
           BitAnd(getPortAddress(port_number) + MCR_ADDR_OFFSET, IO_MASK)
    /\ pc' = "ioperm"
    /\ UNCHANGED <<env, loaded, argv, mcr, mcr0, devicename, linename, cfgfile,
                   port_number, ctrl_line, quiet, old_value, new_value, value,
                   exit_status, hw, report, runs, history>>

\* ioperm on the whole register block of the UART, from its base address
IopermOk_WholeUart ==
    /\ pc = "ioperm"
    /\ hw' = Append(hw, HwOp("ioperm", port_address - MCR_ADDR_OFFSET,
                             WHOLE_UART, 0))
    /\ pc' = "inb"
    /\ UNCHANGED <<env, loaded, argv, mcr, mcr0, devicename, linename, cfgfile,
                   port_number, ctrl_line, quiet, locals, exit_status, report,
                   runs, history>>

\* ioperm(port_address, MCR_REG_ONLY, ON) returns 0
IopermOk ==
    /\ pc = "ioperm"
    /\ hw' = Append(hw, HwOp("ioperm", port_address, MCR_REG_ONLY, 0))
    /\ pc' = "inb"
    /\ UNCHANGED <<env, loaded, argv, mcr, mcr0, devicename, linename, cfgfile,
                   port_number, ctrl_line, quiet, locals, exit_status, report,
                   runs, history>>

\* ioperm(...) != 0 with the return forgotten: the run goes on to inb()
IopermFail_NoReturn ==
    /\ pc = "ioperm"
    /\ hw' = Append(hw, HwOp("ioperm", port_address, MCR_REG_ONLY, -1))
    /\ pc' = "inb"
    /\ UNCHANGED <<env, loaded, argv, mcr, mcr0, devicename, linename, cfgfile,
                   port_number, ctrl_line, quiet, locals, exit_status, report,
                   runs, history>>

\* ioperm(...) != 0: the message, then return -1.  (error() is not declared
\* in the program; the C library's function of that name may end the process
\* itself.  Either way nothing after the call runs.)
IopermFail ==
    /\ pc = "ioperm"
    /\ hw' = Append(hw, HwOp("ioperm", port_address, MCR_REG_ONLY, -1))
    /\ pc' = "exited"
    /\ exit_status' = -1
    /\ UNCHANGED <<env, loaded, argv, mcr, mcr0, devicename, linename, cfgfile,
                   port_number, ctrl_line, quiet, locals, report, runs,
                   history>>

\* old_value = inb(port_address)
ReadOld ==
    /\ pc = "inb"
    /\ old_value' = InB
    /\ hw' = Append(hw, HwOp("inb", port_address, 1, InB))
    /\ pc' = "value"
    /\ UNCHANGED <<env, loaded, argv, mcr, mcr0, devicename, linename, cfgfile,
                   port_number, ctrl_line, quiet, port_address, new_value,
                   value, exit_status, report, runs, history>>

\* value = atoi(argv[3]) & 0x01.  argv[argc] is NULL, and atoi(NULL)
\* faults; past it lie the environment pointers.
DesiredValues ==
    IF Len(argv) >= 4 THEN {Atoi(argv[4]) % 2}
    ELSE IF Len(argv) = 3 THEN {}
    ELSE {OFF, ON}

DesiredFaults == Len(argv) < 4

ReadValue ==
    /\ pc = "value"
    /\ \/ \E v \in DesiredValues :
            /\ value' = v
            /\ pc' = "outb"
            /\ UNCHANGED exit_status
       \/ /\ DesiredFaults
          /\ Crash
          /\ UNCHANGED value
    /\ UNCHANGED <<env, loaded, argv, mcr, mcr0, devicename, linename, cfgfile,
                   port_number, ctrl_line, quiet, port_address, old_value,
                   new_value, hw, report, runs, history>>

\* the switch, the mask and outb(new_value, port_address)
WriteNew ==
    /\ pc = "outb"
    /\ \E before \in Unassigned(ctrl_line) :
          LET nv == computeNewValue(ctrl_line, value, old_value, before) IN
          /\ new_value' = nv
          /\ mcr' = OutB(nv)
          /\ hw' = Append(hw, HwOp("outb", port_address, 1, nv))
    /\ pc' = "readback"
    /\ UNCHANGED <<env, loaded, argv, mcr0, devicename, linename, cfgfile,
                   port_number, ctrl_line, quiet, port_address, old_value,
                   value, exit_status, report, runs, history>>

\* a read-back that sends the run back to the write, once, when the
\* register does not show the value written
ReadBack_Retry ==
    /\ pc = "readback"
    /\ new_value' = InB
    /\ hw' = Append(hw, HwOp("inb", port_address, 1, InB))
    /\ pc' = IF InB # new_value /\ Len(hw) < 4 THEN "outb" ELSE "report"
    /\ UNCHANGED <<env, loaded, argv, mcr, mcr0, devicename, linename, cfgfile,
                   port_number, ctrl_line, quiet, port_address, old_value,
                   value, exit_status, report, runs, history>>

\* new_value = inb(port_address)
ReadBack ==
    /\ pc = "readback"
    /\ new_value' = InB
    /\ hw' = Append(hw, HwOp("inb", port_address, 1, InB))
    /\ pc' = "report"
    /\ UNCHANGED <<env, loaded, argv, mcr, mcr0, devicename, linename, cfgfile,
                   port_number, ctrl_line, quiet, port_address, old_value,
                   value, exit_status, report, runs, history>>

\* the final report (unless quiet) and exit(0)
ReportExit ==
    /\ pc = "report"
    /\ report' = IF quiet = 0 THEN FinalReport(ctrl_line, new_value) ELSE <<>>
    /\ exit_status' = 0
    /\ history' = Append(history, [ctrl_line |-> ctrl_line, value |-> value,
                                   mcr |-> mcr])
    /\ pc' = "exited"
    /\ UNCHANGED <<env, loaded, argv, mcr, mcr0, devicename, linename, cfgfile,
                   port_number, ctrl_line, quiet, locals, hw, runs>>

\* the same command is run again, on the register as the last run left it
Rerun ==
    /\ pc \in {"exited", "crashed"}
    /\ runs < MaxRuns
    /\ runs' = runs + 1
    /\ argv' = <<"ptt">> \o cmdline
    /\ mcr0' = mcr
    /\ devicename' = DEF_DEVICENAME
    /\ linename' = DEF_LINENAME
    /\ cfgfile' = DEF_CFGFILE
    /\ loaded' = <<>>
    /\ port_number' = DEF_PORTNUM
    /\ ctrl_line' = CTRL_DTR
    /\ quiet' = OFF
    /\ port_address' = 0
    /\ old_value' = 0
    /\ new_value' = 0
    /\ value' = 0
    /\ exit_status' = 0
    /\ hw' = <<>>
    /\ report' = <<>>
    /\ pc' = "load_config"
    /\ UNCHANGED <<env, mcr, history>>

\* one run of the program
Run ==
    \/ LoadConfig
    \/ ParseArgs
    \/ ResolveAddress
    \/ IopermOk
    \/ IopermFail
    \/ ReadOld
    \/ ReadValue
    \/ WriteNew
    \/ ReadBack
    \/ ReportExit

\* successive runs of the same command on the same port
Next ==
    \/ Run
    \/ Rerun

(***************************************************************************)
(* Inputs: configuration files, command lines, register contents.          *)
(***************************************************************************)
Entry(section, name, vals) == {<<>>} \cup {<< <<section, name, v>> >> : v \in vals}

\* the readable files whose entries take their values in the given sets
\* (each entry may also be missing)
FilesOver(devs, lines, ctrls, ports, quiets) ==
    { [readable |-> TRUE, entries |-> q \o d \o l \o c \o p] :
        q \in Entry("DEBUG", "Quiet", quiets),
        d \in Entry("DEVICES", "DeviceName", devs),
        l \in Entry("DEVICES", "LineName", lines),
        c \in Entry("DEVICES", "ControlLine", ctrls),
        p \in Entry("DEVICES", "PortNumber", ports) }

\* the files that give every entry a value
Complete(files) == {f \in files : Len(f.entries) = 5}

\* the file f without its entries called name
Without(f, name) ==
    [f EXCEPT !.entries = SelectSeq(@, LAMBDA e : e[2] # name)]

LineNames == {"NONE", "DTR", "RTS", "BOTH"}
BadLineName == "FOO"

AltFile ==
    [readable |-> TRUE,
     entries |-> << <<"DEBUG", "Quiet", "0">>,
                    <<"DEVICES", "DeviceName", "/dev/ttyS2">>,
                    <<"DEVICES", "LineName", "RTS">>,
                    <<"DEVICES", "ControlLine", "2">>,
                    <<"DEVICES", "PortNumber", "2">> >>]

Disk(f) == [p \in {DEF_CFGFILE, "alt.conf"} |-> IF p = DEF_CFGFILE THEN f ELSE AltFile]

WithLine == {<<o, n>> : o \in {"-l"}, n \in LineNames \cup {BadLineName}}

PortArgs == {"-1", "0", "1", "2", "3", "4", "5", "6", "7", "8", "9"}

\* command lines of the configuration study
CmdLines ==
    {l \o <<v>> : l \in WithLine, v \in {"0", "1"}}
    \cup {<<"1", "--line", "RTS">>, <<"-p", "0", "1">>,
          <<"-d", "/dev/ttyS1", "1">>, <<"-f", "alt.conf", "1">>,
          <<"--quiet", "--debug", "1">>, <<"-x", "-l", "DTR", "1">>,
          <<"-h">>, <<"1">>, <<"-p", "1">>,
          <<"-d", "/dev/ttyS9", "1">>, <<"-l", "DTR", "-p", "0", "1">>}
    \cup {<<"-p", n, "1">> : n \in PortArgs}

\* files of the configuration study
CfgComplete ==
    Complete(FilesOver({"/dev/ttyS0"}, LineNames \cup {BadLineName},
                       {"0", "1", "3"}, {"0"}, {"0"}))

CfgPartial ==
    LET full == Complete(FilesOver({"/dev/ttyS1"}, {"DTR", BadLineName},
                                   {"2", "-1"}, {"-1"}, {"1"}))
    IN  {Without(f, "ControlLine") : f \in full}
        \cup {Without(Without(f, "ControlLine"), "LineName") : f \in full}
        \cup {Without(f, "DeviceName") : f \in full}
        \cup {Without(Without(f, "PortNumber"), "Quiet") : f \in full}

CfgFiles == {Unreadable} \cup CfgComplete \cup CfgPartial

CfgRegs == {0, 66}

\* command lines and files of the register study
RegCmdLines == {<<"-p", "0", v>> : v \in {"0", "1"}}

RegComplete ==
    Complete(FilesOver({"/dev/ttyS0"}, {"BOTH"}, {"0", "2", "3"},
                       {"0"}, {"0"}))

RegFiles ==
    {Unreadable} \cup RegComplete
    \cup {Without(f, "ControlLine") :
            f \in Complete(FilesOver({"/dev/ttyS0"}, {"BOTH"}, {"0"}, {"0"}, {"0"}))}

InitWith(files, cmds, regs) ==
    /\ fs \in {Disk(f) : f \in files}
    /\ cmdline \in cmds
    /\ argv = <<"ptt">> \o cmdline
    /\ uart \in BOOLEAN
    /\ mcr \in (IF uart THEN regs ELSE {UCharRange - 1})
    /\ mcr0 = mcr
    /\ devicename = DEF_DEVICENAME
    /\ linename = DEF_LINENAME
    /\ cfgfile = DEF_CFGFILE
    /\ loaded = <<>>
    /\ port_number = DEF_PORTNUM
    /\ ctrl_line = CTRL_DTR
    /\ quiet = OFF
    /\ port_address = 0
    /\ old_value = 0
    /\ new_value = 0
    /\ value = 0
    /\ exit_status = 0
    /\ hw = <<>>
    /\ report = <<>>
    /\ runs = 1
    /\ history = <<>>
    /\ pc = "load_config"

Init == InitWith(CfgFiles, CmdLines, CfgRegs)

InitReg == InitWith(RegFiles, RegCmdLines, 0 .. (UCharRange - 1))

\* one run, over the configuration inputs
Spec == Init /\ [][Run]_vars

\* successive runs, over every register content
SpecReg == InitReg /\ [][Next]_vars

TypeOK ==
    /\ mcr \in 0 .. (UCharRange - 1)
    /\ ctrl_line \in 0 .. (UCharRange - 1)
    /\ old_value \in 0 .. (UCharRange - 1)
    /\ new_value \in 0 .. (UCharRange - 1)
    /\ value \in {OFF, ON}
    /\ runs \in 1 .. MaxRuns
    /\ Len(history) <= runs
    /\ pc \in {"load_config", "parse_args", "resolve", "ioperm", "inb",
               "value", "outb", "readback", "report", "exited", "crashed"}

(***************************************************************************)
(* Vocabulary of the properties.                                           *)
(***************************************************************************)
HwOps(op) == SelectSeq(hw, LAMBDA h : h.op = op)

Wrote == HwOps("outb") # <<>>

WrittenByte == HwOps("outb")[1].val

RegisterTouched == HwOps("inb") # <<>> \/ HwOps("outb") # <<>>

IopermFailed == \E i \in 1 .. Len(hw) : hw[i].op = "ioperm" /\ hw[i].val # 0

Bit(b, n) == (b \div (2 ^ n)) % 2

NoCliLine == "<none>"

\* the argument of the last --line option of the command line as typed
CliLine == GetoptScan(cmdline, [ScanStart EXCEPT !.linename = NoCliLine]).linename

CliFileGiven == GetoptScan(cmdline, [ScanStart EXCEPT !.cfgfile = ""]).cfgfile # ""

FileHas(f, name) == \E i \in 1 .. Len(f.entries) : f.entries[i][2] = name

FileValue(f, name) ==
    LET named == SelectSeq(f.entries, LAMBDA e : e[2] = name)
    IN  named[Len(named)][3]

DefaultFile == FileAt(DEF_CFGFILE)

\* the desired state was read from an argument (argv[3] exists)
DesiredGiven == Len(argv) >= 4

pastLoad == pc \notin {"load_config"}

Ended == pc \in {"exited", "crashed"}

(***************************************************************************)
(* C1.  The byte written to the MCR differs from the byte read only in the *)
(* bits of the selector: bits 2-7 of the byte written equal bits 2-7 of    *)
(* the byte read.  The code masks the new value with MCR_MASK before the   *)
(* write, so this fails for every byte read that has one of bits 2-7 set.  *)
(***************************************************************************)
C1_UpperBitsPreserved ==
    (Wrote /\ ctrl_line \in {CTRL_NONE, CTRL_DTR, CTRL_RTS, CTRL_BOTH})
        => WrittenByte \div 4 = old_value \div 4

(***************************************************************************)
(* C2.  With selector BOTH the byte written has the DTR bit and the RTS    *)
(* bit equal to the desired state.  The code's second assignment starts    *)
(* again from old_value, so the DTR bit written is the one read.           *)
(***************************************************************************)
C2_BothSetsBothBits ==
    (Wrote /\ ctrl_line = CTRL_BOTH)
        => Bit(WrittenByte, 0) = value /\ Bit(WrittenByte, 1) = value

(***************************************************************************)
(* C3.  With selector NONE the register is left unmodified: after the run  *)
(* the MCR holds the value read at the start of the run.  The code writes  *)
(* MCR_MASK & new_value with new_value never assigned.                     *)
(***************************************************************************)
C3_NoneLeavesRegister ==
    (Wrote /\ ctrl_line = CTRL_NONE) => mcr = old_value

(***************************************************************************)
(* C4.  Idempotence: two successive runs with the same selector and the    *)
(* same desired state, on a register that returns what was last written,   *)
(* leave the register as the first of them left it.                        *)
(***************************************************************************)
C4_Idempotent ==
    \A i \in 1 .. (Len(history) - 1) :
        ( /\ uart
          /\ history[i].ctrl_line \in {CTRL_NONE, CTRL_DTR, CTRL_RTS, CTRL_BOTH}
          /\ history[i + 1].ctrl_line = history[i].ctrl_line
          /\ history[i + 1].value = history[i].value )
            => history[i + 1].mcr = history[i].mcr

(***************************************************************************)
(* C5.  A recognized --line value of the command line is the selector used *)
(* for the register update, whatever the file and the default say.         *)
(* parse_args only stores the string in linename; ctrl_line is not         *)
(* recomputed from it.                                                     *)
(***************************************************************************)
C5_CliLineWins ==
    (Wrote /\ CliLine \in LineNames) => ctrl_line = getCtrlLine(CliLine)

(***************************************************************************)
(* C6.  When neither the command line nor the configuration file gives a   *)
(* control line (no file loaded included), the selector used for the       *)
(* register update is BOTH.                                                *)
(***************************************************************************)
C6_DefaultIsBoth ==
    ( /\ Wrote
      /\ DesiredGiven
      /\ CliLine = NoCliLine
      /\ ~CliFileGiven
      /\ ~DefaultFile.readable
           \/ (~FileHas(DefaultFile, "LineName")
               /\ ~FileHas(DefaultFile, "ControlLine")) )
        => ctrl_line = CTRL_BOTH

(***************************************************************************)
(* C7.  An unrecognized --line value on the command line: no hardware      *)
(* access at all (no ioperm, no inb, no outb) and a non-zero exit status.  *)
(***************************************************************************)
C7_BadCliLineRefused ==
    (CliLine \notin LineNames \cup {NoCliLine})
        => hw = <<>> /\ (Ended => exit_status # 0)

(***************************************************************************)
(* C8.  An unrecognized LineName in the configuration file, and no control *)
(* line from the command line: the run ends in a configuration error       *)
(* before any register read or write.                                      *)
(***************************************************************************)
C8_BadFileLineRefused ==
    ( /\ DefaultFile.readable
      /\ FileHas(DefaultFile, "LineName")
      /\ FileValue(DefaultFile, "LineName") \notin LineNames
      /\ ~FileHas(DefaultFile, "ControlLine")
      /\ CliLine = NoCliLine
      /\ ~CliFileGiven )
        => ~RegisterTouched /\ (Ended => exit_status # 0)

(***************************************************************************)
(* C9.  An unreadable configuration file (load_config returns ERROR) is    *)
(* fatal before any hardware access: no ioperm, inb or outb, and a         *)
(* non-zero exit status.                                                   *)
(***************************************************************************)
C9_UnreadableFileFatal ==
    (pastLoad /\ ~DefaultFile.readable /\ ~CliFileGiven)
        => hw = <<>> /\ (Ended => exit_status # 0)

(***************************************************************************)
(* C10.  When ioperm fails the run ends with a non-zero exit status        *)
(* without a register read or write: the register is unchanged.            *)
(***************************************************************************)
C10_IopermFailureFatal ==
    IopermFailed =>
        /\ pc = "exited"
        /\ exit_status # 0
        /\ ~RegisterTouched
        /\ mcr = mcr0

C10_Witness == IopermFailed /\ pc = "exited" /\ exit_status = -1

(***************************************************************************)
(* Further vocabulary.                                                     *)
(***************************************************************************)
OpNames == [i \in 1 .. Len(hw) |-> hw[i].op]

HwOrder == <<"ioperm", "inb", "outb", "inb">>

IsPrefix(a, b) == Len(a) <= Len(b) /\ \A i \in 1 .. Len(a) : a[i] = b[i]

Succeeded == pc = "exited" /\ exit_status = 0

\* the register address of a device index, as the specification gives it
RegisterAddress(index) ==
    BitAnd(getPortAddress(index) + MCR_ADDR_OFFSET, IO_MASK)

\* parse_args has run to its end and main has gone on
ArgsParsed ==
    pc \in {"resolve", "ioperm", "inb", "value", "outb", "readback", "report"}
    \/ hw # <<>>

AddressResolved ==
    pc \in {"ioperm", "inb", "value", "outb", "readback", "report"}
    \/ hw # <<>>

\* the argument of the last option among opts on the command line as typed
\* (none when the command line has no such option)
RECURSIVE LastArgOf(_, _, _)
LastArgOf(toks, opts, none) ==
    IF Len(toks) < 2 THEN none
    ELSE IF Head(toks) \in opts
         THEN LastArgOf(Tail(Tail(toks)), opts, Head(Tail(toks)))
         ELSE IF Head(toks) \in ArgOpts
              THEN LastArgOf(Tail(Tail(toks)), opts, none)
              ELSE LastArgOf(Tail(toks), opts, none)

(***************************************************************************)
(* C11.  Port access is acquired at most once in a run and before every    *)
(* register read and write: a run that touches the register has acquired   *)
(* exactly once, first, a region of exactly one byte, at the address that  *)
(* is then read and written.  (Runs that end before the hardware stage, on *)
(* a usage exit or a fault, acquire nothing.)                              *)
(***************************************************************************)
C11_AcquireOnceOneByte ==
    /\ Len(HwOps("ioperm")) <= 1
    /\ hw # <<>> =>
          /\ hw[1].op = "ioperm"
          /\ hw[1].num = 1
          /\ hw[1].addr = port_address
    /\ \A i \in 2 .. Len(hw) :
          /\ hw[i].op \in {"inb", "outb"}
          /\ hw[1].val = 0
          /\ hw[i].addr = hw[1].addr
    /\ Succeeded => Len(HwOps("ioperm")) = 1

C11_Witness ==
    /\ Succeeded
    /\ Len(hw) = 4
    /\ hw[1].op = "ioperm" /\ hw[1].num = 1
    /\ hw[3].op = "outb" /\ hw[3].addr = hw[1].addr

(***************************************************************************)
(* C12.  The hardware operations of a run come in the order acquire, read, *)
(* write, read-back, each at most once; a run that exits with status 0 has *)
(* done exactly these four, with one write even when the read-back differs *)
(* from the byte written, and a run that has done the four exits with 0.   *)
(***************************************************************************)
C12_FixedOrderNoRetry ==
    /\ IsPrefix(OpNames, HwOrder)
    /\ Succeeded => OpNames = HwOrder
    /\ (pc = "exited" /\ Len(hw) = 4) => exit_status = 0

C12_Witness ==
    /\ Succeeded
    /\ OpNames = HwOrder
    /\ hw[4].val # hw[3].val

(***************************************************************************)
(* C13.  As claimed: the base address is the table value for the indexes   *)
(* 0..7 and the index-0 default 0x3F8 for every other integer.  The table  *)
(* of getPortAddress has a ninth entry: index 8 gives 0xdcd8.              *)
(***************************************************************************)
ClaimedBase(index) ==
    CASE index = 0 -> 1016
      [] index = 1 -> 760
      [] index = 2 -> 1000
      [] index = 3 -> 744
      [] index = 4 -> 60568
      [] index = 5 -> 56512
      [] index = 6 -> 56520
      [] index = 7 -> 56528
      [] OTHER -> 1016

C14_OneRegisterAddress ==
    \A i \in 1 .. Len(hw) :
        /\ hw[i].addr = RegisterAddress(port_number)
        /\ port_number = 0 => hw[i].addr = 1020

C14_Witness ==
    /\ Len(hw) = 4
    /\ port_number = 0
    /\ \A i \in 1 .. 4 : hw[i].addr = 1020

(***************************************************************************)
(* Command-line vocabulary, read from the command line as typed.           *)
(***************************************************************************)
NoCli == "<none>"

CliDeviceArg == LastArgOf(cmdline, DeviceOpts, NoCli)

CliPortArg == LastArgOf(cmdline, PortOpts, NoCli)

CliFileArg == LastArgOf(cmdline, FileOpts, NoCli)

\* the arguments that are neither options nor arguments of options
RECURSIVE Positionals(_)
Positionals(toks) ==
    IF toks = <<>> THEN <<>>
    ELSE IF Head(toks) \in ArgOpts
         THEN (IF Len(toks) < 2 THEN <<>> ELSE Positionals(Tail(Tail(toks))))
         ELSE IF Head(toks) \in ExitOpts \cup FlagOpts \cup UnknownOpts
              THEN Positionals(Tail(toks))
              ELSE <<Head(toks)>> \o Positionals(Tail(toks))

DeviceNames ==
    {"/dev/ttyS0", "/dev/ttyS1", "/dev/ttyS2", "/dev/ttyS3",
     "/dev/ttyS4", "/dev/ttyS5", "/dev/ttyS6", "/dev/ttyS7"}

DeviceIndex(name) ==
    CASE name = "/dev/ttyS0" -> 0
      [] name = "/dev/ttyS1" -> 1
      [] name = "/dev/ttyS2" -> 2
      [] name = "/dev/ttyS3" -> 3
      [] name = "/dev/ttyS4" -> 4
      [] name = "/dev/ttyS5" -> 5
      [] name = "/dev/ttyS6" -> 6
      [] name = "/dev/ttyS7" -> 7

ValueRead == pc = "outb" \/ Wrote

LineMask(name) == IF name = "DTR" THEN DTR_MASK ELSE RTS_MASK

(***************************************************************************)
(* C15.  The desired state is the single trailing positional argument,     *)
(* whatever the number of options before it, as an integer reduced to its  *)
(* low bit.  The code reads argv[3], wherever the positional argument is.  *)
(***************************************************************************)
C15_TrailingPositional ==
    (ValueRead /\ DesiredGiven /\ Len(Positionals(cmdline)) = 1)
        => value = Atoi(Positionals(cmdline)[1]) % 2

(***************************************************************************)
(* C16.  The configuration file loaded is the default path unless --file   *)
(* is given, and then it is the path given.  main calls load_config before *)
(* parse_args, so the path given is never loaded.                          *)
(***************************************************************************)
C16_FileOptionLoaded ==
    ArgsParsed =>
        loaded = << IF CliFileArg = NoCli THEN DEF_CFGFILE ELSE CliFileArg >>

(***************************************************************************)
(* C17.  --device /dev/ttySN without --port: the device index used to      *)
(* resolve the register address is N.  parse_args stores the name only.    *)
(***************************************************************************)
C17_DeviceOptionIndex ==
    (AddressResolved /\ CliDeviceArg \in DeviceNames /\ CliPortArg = NoCli)
        => /\ port_number = DeviceIndex(CliDeviceArg)
           /\ port_address = ClaimedBase(DeviceIndex(CliDeviceArg)) + 4

(***************************************************************************)
(* C18.  --port n: the device index used to resolve the register address   *)
(* is n, whatever the PortNumber and the DeviceName of the configuration   *)
(* file and the default are.                                               *)
(***************************************************************************)
C18_PortOptionWins ==
    (ArgsParsed /\ CliPortArg # NoCli)
        => /\ port_number = Atoi(CliPortArg)
           /\ \A i \in 1 .. Len(hw) :
                 hw[i].addr = RegisterAddress(Atoi(CliPortArg))

C18_Witness ==
    /\ Succeeded
    /\ CliPortArg = "2"
    /\ DefaultFile.readable
    /\ FileHas(DefaultFile, "PortNumber")
    /\ FileValue(DefaultFile, "PortNumber") = "0"
    /\ FileValue(DefaultFile, "DeviceName") = "/dev/ttyS0"
    /\ hw[1].addr = 1004

(***************************************************************************)
(* C19.  A device name that resolves to no index is an error, never a      *)
(* silent fallback: a run whose only device setting is such a name does    *)
(* no hardware access at the address of port 0.                            *)
(***************************************************************************)
C19_BadDeviceNoFallback ==
    ( /\ CliDeviceArg \notin DeviceNames \cup {NoCli}
      /\ CliPortArg = NoCli
      /\ CliFileArg = NoCli
      /\ ~DefaultFile.readable
           \/ (~FileHas(DefaultFile, "DeviceName")
               /\ ~FileHas(DefaultFile, "PortNumber")) )
        => \A i \in 1 .. Len(hw) : hw[i].addr # 1020

(***************************************************************************)
(* C20.  The final report says of each line of the selector that it is ON  *)
(* exactly when (readback & mask) == mask; RTS is ON iff bit 1 of the      *)
(* read-back is set.  The code tests readback & (mask == mask): bit 0 for  *)
(* both lines.                                                             *)
(***************************************************************************)
C20_ReportReadsMask ==
    (Succeeded /\ DesiredGiven /\ quiet = 0)
        => \A i \in 1 .. Len(report) :
              (report[i][2] = "ON")
                  <=> (BitAnd(new_value, LineMask(report[i][1]))
                          = LineMask(report[i][1]))

(***************************************************************************)
(* C21.  A command line with an unknown option, or without a desired-state *)
(* argument, ends the run with a non-zero exit status before any side      *)
(* effect: no port access is acquired, no register is read or written.     *)
(* case '?' of parse_args only breaks, and main never looks at the number  *)
(* of arguments left: the run goes on to ioperm and inb.                   *)
(***************************************************************************)
UnknownOptionGiven == \E i \in 1 .. Len(cmdline) : cmdline[i] \in UnknownOpts

DesiredStateMissing == Positionals(cmdline) = <<>>

C21_UsageErrorNoSideEffect ==
    (UnknownOptionGiven \/ DesiredStateMissing)
        => /\ hw = <<>>
           /\ pc = "exited" => exit_status # 0

(***************************************************************************)
(* C22.  Every byte passed to outb is in 0..3, whatever the register byte  *)
(* read, the selector (out-of-range ones included) and the desired state:  *)
(* bits 2-7 of the written byte are zero.                                  *)
(***************************************************************************)
C22_WrittenByteMasked ==
    \A i \in 1 .. Len(hw) : hw[i].op = "outb" => hw[i].val \in 0 .. 3

\* a write after a read of a byte with upper bits set, by an out-of-range
\* selector
C22_Witness ==
    /\ Wrote
    /\ old_value = 252
    /\ ctrl_line \notin {CTRL_NONE, CTRL_DTR, CTRL_RTS, CTRL_BOTH}
    /\ WrittenByte \in 0 .. 3

(***************************************************************************)
(* C23.  A run with selector DTR leaves the RTS bit as read, and a run     *)
(* with selector RTS leaves the DTR bit as read: bit 1 (resp. bit 0) of    *)
(* the written byte is bit 1 (resp. bit 0) of the byte read, for every     *)
(* register byte and desired state.                                        *)
(***************************************************************************)
C23_OtherLineKept ==
    Wrote =>
        /\ ctrl_line = CTRL_DTR => Bit(WrittenByte, 1) = Bit(old_value, 1)
        /\ ctrl_line = CTRL_RTS => Bit(WrittenByte, 0) = Bit(old_value, 0)

\* DTR cleared while RTS is set, and RTS set while DTR is set
C23_Witness ==
    /\ Wrote
    /\ \/ /\ ctrl_line = CTRL_DTR /\ value = OFF
          /\ old_value = 3 /\ WrittenByte = 2
       \/ /\ ctrl_line = CTRL_RTS /\ value = ON
          /\ old_value = 1 /\ WrittenByte = 3

(***************************************************************************)
(* C24.  When the configuration file loads, the selector left by           *)
(* load_config is the ControlLine field of the file's record, never the    *)
(* translation of LineName: the value of the ControlLine entry as an       *)
(* unsigned char where the file has one, and what the field of the         *)
(* uninitialised record holds where it has none.                           *)
(***************************************************************************)
ConfigLoaded == pc = "parse_args" /\ DefaultFile.readable

C24_ControlLineFieldWins ==
    ConfigLoaded =>
        IF FileHas(DefaultFile, "ControlLine")
        THEN ctrl_line = ToUChar(Atoi(FileValue(DefaultFile, "ControlLine")))
        ELSE ctrl_line \in IndeterminateUChar

\* ControlLine=-1 beside LineName=DTR: the selector is 255, not CTRL_DTR
C24_Witness ==
    /\ ConfigLoaded
    /\ FileHas(DefaultFile, "ControlLine")
    /\ FileValue(DefaultFile, "ControlLine") = "-1"
    /\ FileValue(DefaultFile, "LineName") = "DTR"
    /\ ctrl_line = UCharRange - 1

====
